---- MODULE Spec2Model ----
(***************************************************************************)
(* Currency Whisper AI: the query extractor (extractCurrencyInfo), the     *)
(* result formatter (formatCurrencyResult) and the two submit handlers of  *)
(* the CurrencyConverter component.                                        *)
(*                                                                         *)
(* JavaScript strings are TLA+ strings; a character is a string of length  *)
(* one.  JavaScript numbers are modelled as exact decimals m * 10^(-e)     *)
(* (plus NaN and the infinities); binary rounding of products is not       *)
(* modelled.                                                               *)
(***************************************************************************)
EXTENDS Integers, Sequences, FiniteSets, TLC

VARIABLES
    query,                \* useState(""): the text of the natural-language input
    result,               \* useState(null): the sentence shown as the result
    isConverting,         \* useState(false)
    usingNaturalLanguage, \* useState(true): which of the two forms is rendered
    form,                 \* the values held by useForm: amount, fromCurrency, toCurrency
    isLoading,            \* useState(false) of the Index page, set through setIsLoading
    pc,                   \* where the running handler (or function under test) is
    handler,              \* which submit handler is running
    request,              \* its constants amount, fromCurrency, toCurrency
    response,             \* the Response its fetch resolved to
    extraction,           \* the value last returned by extractCurrencyInfo
    formatArgs,           \* the arguments of the last call of formatCurrencyResult
    formatCalls,          \* calls of formatCurrencyResult by the last submission
    fetches,              \* calls of fetch by the last submission and by those that
                          \* started while it was running
    toast                 \* title of the toast raised by the last submission, "" if none

vars == <<query, result, isConverting, usingNaturalLanguage, form, isLoading, pc,
          handler, request, response, extraction, formatArgs, formatCalls, fetches,
          toast>>

-----------------------------------------------------------------------------
(* Characters and character classes of the regular expressions.            *)

\* The characters of the source outside ASCII.  TLC keeps the strings of a
\* state in eight bits, so each is written as an ASCII character of the same
\* kind (one UTF-16 unit, no word character, no white space, its own lower
\* case) that occurs nowhere else in the strings of the model.
EuroSign == "~"
PoundSign == "#"
YenSign == "%"
RupeeSign == "&"
RubleSign == "@"

Ch(s, i) == IF 1 <= i /\ i <= Len(s) THEN SubSeq(s, i, i) ELSE ""

DigitChars == "0123456789"
LowerChars == "abcdefghijklmnopqrstuvwxyz"
UpperChars == "ABCDEFGHIJKLMNOPQRSTUVWXYZ"

CharsOf(s) == {SubSeq(s, i, i) : i \in 1..Len(s)}

Digits == CharsOf(DigitChars)
LowerLetters == CharsOf(LowerChars)
UpperLetters == CharsOf(UpperChars)

\* \d
IsDigit(c) == c \in Digits
\* [a-zA-Z]
IsLetter(c) == c \in LowerLetters \/ c \in UpperLetters
\* \w
IsWord(c) == IsLetter(c) \/ IsDigit(c) \/ c = "_"
\* \s
IsSpace(c) == c \in {" ", "\t", "\n", "\r"}

\* String.prototype.toLowerCase, one character
LowerOf(c) ==
    IF c \in UpperLetters
    THEN LET i == CHOOSE k \in 1..26 : SubSeq(UpperChars, k, k) = c
         IN  SubSeq(LowerChars, i, i)
    ELSE c

\* the one element of a singleton set.  The({F(x) : x \in {e}}) is F(e) with
\* e evaluated once.
The(S) == CHOOSE x \in S : TRUE

\* String.prototype.toLowerCase, from index i on
RECURSIVE LowerFrom(_, _)
LowerFrom(s, i) == IF i > Len(s) THEN "" ELSE LowerOf(Ch(s, i)) \o LowerFrom(s, i + 1)

toLowerCase(s) == LowerFrom(s, 1)

\* s has lit at index i
StartsWithAt(s, i, lit) ==
    /\ i >= 1
    /\ i + Len(lit) - 1 <= Len(s)
    /\ SubSeq(s, i, i + Len(lit) - 1) = lit

\* String.prototype.includes
includes(s, key) == \E i \in 1..(Len(s) - Len(key) + 1) : StartsWithAt(s, i, key)

\* the index just after the longest run of \w, \s, \d characters starting at i
RECURSIVE WordEnd(_, _)
WordEnd(s, i) == IF IsWord(Ch(s, i)) THEN WordEnd(s, i + 1) ELSE i

RECURSIVE SpaceEnd(_, _)
SpaceEnd(s, i) == IF IsSpace(Ch(s, i)) THEN SpaceEnd(s, i + 1) ELSE i

RECURSIVE DigitEnd(_, _)
DigitEnd(s, i) == IF IsDigit(Ch(s, i)) THEN DigitEnd(s, i + 1) ELSE i

\* \b at index i (between the characters i-1 and i)
WordBoundary(s, i) == IsWord(Ch(s, i - 1)) # IsWord(Ch(s, i))

-----------------------------------------------------------------------------
(* JavaScript numbers: exact decimals m * 10^(-e), NaN, +Infinity,         *)
(* -Infinity.                                                              *)

RECURSIVE Pow10(_)
Pow10(n) == IF n <= 0 THEN 1 ELSE 10 * Pow10(n - 1)

\* the decimal m * 10^(-e), in lowest terms
RECURSIVE Finite(_, _)
Finite(m, e) ==
    IF e > 0 /\ m % 10 = 0 THEN Finite(m \div 10, e - 1)
    ELSE [kind |-> "finite", m |-> m, e |-> e]

NaN == [kind |-> "NaN", m |-> 0, e |-> 0]
PosInfinity == [kind |-> "Infinity", m |-> 1, e |-> 0]
NegInfinity == [kind |-> "Infinity", m |-> -1, e |-> 0]

isNaN(x) == x.kind = "NaN"
IsFiniteNumber(x) == x.kind = "finite"
IsNumber(x) == x.kind \in {"finite", "NaN", "Infinity"}

\* x * y
Times(x, y) ==
    IF isNaN(x) \/ isNaN(y) THEN NaN
    ELSE IF x.kind = "Infinity" \/ y.kind = "Infinity"
    THEN IF x.m = 0 \/ y.m = 0 THEN NaN
         ELSE IF (x.m > 0) = (y.m > 0) THEN PosInfinity ELSE NegInfinity
    ELSE Finite(x.m * y.m, x.e + y.e)

DigitVal(c) == (CHOOSE k \in 1..10 : SubSeq(DigitChars, k, k) = c) - 1

\* the value of the first n characters of a string of digits
RECURSIVE DigitsUpTo(_, _)
DigitsUpTo(t, n) ==
    IF n <= 0 THEN 0 ELSE 10 * DigitsUpTo(t, n - 1) + DigitVal(Ch(t, n))

\* the value of a string of digits ("" is 0)
DigitsValue(t) == DigitsUpTo(t, Len(t))

\* parseFloat: leading white space skipped, then the longest prefix that is
\* a decimal literal (sign, digits, fraction, exponent) or a signed
\* "Infinity"; NaN when there is none.
ParseFloatOf(t) ==
    LET a == SpaceEnd(t, 1)
        neg == Ch(t, a) = "-"
        b == IF Ch(t, a) \in {"+", "-"} THEN a + 1 ELSE a
        sign == IF neg THEN -1 ELSE 1
        ie == DigitEnd(t, b)                       \* end of the integer digits
        hasDot == Ch(t, ie) = "."
        fe == IF hasDot THEN DigitEnd(t, ie + 1) ELSE ie
        nInt == ie - b
        nFrac == IF hasDot THEN fe - (ie + 1) ELSE 0
        xs == IF Ch(t, fe + 1) \in {"+", "-"} THEN fe + 2 ELSE fe + 1
        xe == DigitEnd(t, xs)
        hasExp == Ch(t, fe) \in {"e", "E"} /\ xe > xs
        ex == IF ~hasExp THEN 0
              ELSE IF Ch(t, fe + 1) = "-" THEN 0 - DigitsValue(SubSeq(t, xs, xe - 1))
              ELSE DigitsValue(SubSeq(t, xs, xe - 1))
        mant == DigitsValue(SubSeq(t, b, ie - 1) \o
                            (IF hasDot THEN SubSeq(t, ie + 1, fe - 1) ELSE ""))
    IN  IF StartsWithAt(t, b, "Infinity")
        THEN (IF neg THEN NegInfinity ELSE PosInfinity)
        ELSE IF nInt + nFrac = 0 THEN NaN
        ELSE IF nFrac - ex >= 0 THEN Finite(sign * mant, nFrac - ex)
        ELSE Finite(sign * mant * Pow10(ex - nFrac), 0)

parseFloat(text) == The({ParseFloatOf(t) : t \in {text}})

\* String.prototype.replace(/,/g, ""), from index i on
RECURSIVE CommasRemovedFrom(_, _)
CommasRemovedFrom(t, i) ==
    IF i > Len(t) THEN ""
    ELSE (IF Ch(t, i) = "," THEN "" ELSE Ch(t, i)) \o CommasRemovedFrom(t, i + 1)

RemoveCommas(t) == CommasRemovedFrom(t, 1)

-----------------------------------------------------------------------------
(* amountRegex = /\b(\d{1,3}(,\d{3})*(\.\d+)?|\d+(\.\d+)?)\b/              *)
(* An "end" is the index just after a match; 0 means no match.             *)

\* one ,\d{3} at p
GroupAt(s, p) ==
    Ch(s, p) = "," /\ IsDigit(Ch(s, p + 1)) /\ IsDigit(Ch(s, p + 2)) /\ IsDigit(Ch(s, p + 3))

\* (,\d{3})* taken greedily from p
RECURSIVE GroupsEnd(_, _)
GroupsEnd(s, p) == IF GroupAt(s, p) THEN GroupsEnd(s, p + 4) ELSE p

\* (\.\d+)? taken greedily from p
FracEnd(s, p) == IF Ch(s, p) = "." /\ IsDigit(Ch(s, p + 1)) THEN DigitEnd(s, p + 1) ELSE p

\* (\.\d+)?\b from p: with the fraction first, then without it
FracThenBoundary(s, p) ==
    LET f == FracEnd(s, p)
    IN  IF f > p /\ WordBoundary(s, f) THEN f
        ELSE IF WordBoundary(s, p) THEN p
        ELSE 0

\* first alternative from i: \d{1,3} longest first, then (,\d{3})* longest first
AmountAlt1End(s, i) ==
    LET run == DigitEnd(s, i) - i
        N == IF run > 3 THEN 3 ELSE run
        MaxG(n) == (GroupsEnd(s, i + n) - (i + n)) \div 4
        EndOf(n, g) == FracThenBoundary(s, i + n + 4 * g)
        ok(n) == \E g \in 0..MaxG(n) : EndOf(n, g) # 0
    IN  IF \E n \in 1..N : ok(n)
        THEN LET n == CHOOSE k \in 1..N : ok(k) /\ \A k2 \in (k + 1)..N : ~ok(k2)
                 g == CHOOSE h \in 0..MaxG(n) :
                          EndOf(n, h) # 0 /\ \A h2 \in (h + 1)..MaxG(n) : EndOf(n, h2) = 0
             IN  EndOf(n, g)
        ELSE 0

\* second alternative from i: \d+ (only the whole run of digits can be followed
\* by a fraction or a boundary)
AmountAlt2End(s, i) == FracThenBoundary(s, DigitEnd(s, i))

\* the end of the match that starts at i
AmountEndAt(s, i) ==
    IF ~(IsDigit(Ch(s, i)) /\ WordBoundary(s, i)) THEN 0
    ELSE LET a == AmountAlt1End(s, i)
         IN  IF a # 0 THEN a ELSE AmountAlt2End(s, i)

\* the leftmost index >= i at which amountRegex matches, 0 when there is none
RECURSIVE AmountStart(_, _)
AmountStart(s, i) ==
    IF i > Len(s) THEN 0
    ELSE IF AmountEndAt(s, i) # 0 THEN i
    ELSE AmountStart(s, i + 1)

\* an amount match that takes a minus sign standing right before the digits
amountMatchSigned(s) ==
    LET i == AmountStart(s, 1)
    IN  IF i = 0 THEN ""
        ELSE IF Ch(s, i - 1) = "-" THEN SubSeq(s, i - 1, AmountEndAt(s, i) - 1)
        ELSE SubSeq(s, i, AmountEndAt(s, i) - 1)

\* normalizedQuery.match(amountRegex)[0]; "" stands for null (a match is
\* never empty)
amountMatch(s) ==
    LET i == AmountStart(s, 1)
    IN  IF i = 0 THEN "" ELSE SubSeq(s, i, AmountEndAt(s, i) - 1)

-----------------------------------------------------------------------------
(* The alias table currencyCodes, an object literal: its own properties in *)
(* insertion order, and the properties it inherits from Object.prototype.  *)

currencyCodes ==
    << <<"usd", "USD">>, <<"dollar", "USD">>, <<"dollars", "USD">>, <<"$", "USD">>,
       <<"eur", "EUR">>, <<"euro", "EUR">>, <<"euros", "EUR">>, <<EuroSign, "EUR">>,
       <<"gbp", "GBP">>, <<"pound", "GBP">>, <<"pounds", "GBP">>, <<PoundSign, "GBP">>,
       <<"jpy", "JPY">>, <<"yen", "JPY">>, <<YenSign \o "jpy", "JPY">>,
       <<"inr", "INR">>, <<"rupee", "INR">>, <<"rupees", "INR">>, <<"rs", "INR">>,
       <<RupeeSign, "INR">>,
       <<"cad", "CAD">>, <<"canadian dollar", "CAD">>, <<"c$", "CAD">>,
       <<"aud", "AUD">>, <<"australian dollar", "AUD">>, <<"a$", "AUD">>,
       <<"chf", "CHF">>, <<"franc", "CHF">>, <<"francs", "CHF">>,
       <<"cny", "CNY">>, <<"yuan", "CNY">>, <<"rmb", "CNY">>, <<YenSign \o "cny", "CNY">> >>

\* the values of a JavaScript expression that are not currency codes
null == "null"
undefined == "undefined"
\* Object.prototype.constructor and Object.prototype.__proto__ (the values
\* are named by what String() makes of them)
ObjectFunction == "function Object() { [native code] }"
ObjectPrototype == "[object Object]"

\* currencyCodes[w]: the own property, else the inherited one, else undefined.
\* The only property names of Object.prototype that a lowercased \w+ capture
\* can spell are constructor and __proto__.
OwnPropertyOf(w) ==
    IF \E k \in 1..Len(currencyCodes) : currencyCodes[k][1] = w
    THEN currencyCodes[CHOOSE k \in 1..Len(currencyCodes) : currencyCodes[k][1] = w][2]
    ELSE IF w = "constructor" THEN ObjectFunction
    ELSE IF w = "__proto__" THEN ObjectPrototype
    ELSE undefined

PropertyOf(word) == The({OwnPropertyOf(w) : w \in {word}})

\* a value in a condition
Truthy(v) == v \notin {null, undefined, ""}

-----------------------------------------------------------------------------
(* conversionPatterns.  A match is [matched, source, target]: match[1] and *)
(* match[2].                                                               *)

NoMatch == [matched |-> FALSE, source |-> "", target |-> ""]

\* (\w+)\s+<word>\s+(\w+) with the first capture starting at j.  Each
\* quantifier can only take its whole run: a shorter \w+ is followed by a
\* word character, not by \s, and a shorter \s+ is followed by a space, not
\* by the literal or a word character.
PairAt(s, j, word) ==
    LET e1 == WordEnd(s, j)
        s1 == SpaceEnd(s, e1)
        w1 == s1 + Len(word)
        s2 == SpaceEnd(s, w1)
        e2 == WordEnd(s, s2)
    IN  IF e1 > j /\ s1 > e1 /\ StartsWithAt(s, s1, word) /\ s2 > w1 /\ e2 > s2
        THEN [matched |-> TRUE, source |-> SubSeq(s, j, e1 - 1),
              target |-> SubSeq(s, s2, e2 - 1)]
        ELSE NoMatch

\* /(\w+)\s+<word>\s+(\w+)/: the leftmost match starting at or after i
RECURSIVE PairFrom(_, _, _)
PairFrom(s, i, word) ==
    IF i > Len(s) THEN NoMatch
    ELSE IF IsWord(Ch(s, i)) /\ PairAt(s, i, word).matched THEN PairAt(s, i, word)
    ELSE PairFrom(s, i + 1, word)

\* /from\s+(\w+)\s+to\s+(\w+)/: the leftmost match starting at or after i
RECURSIVE FromToFrom(_, _)
FromToFrom(s, i) ==
    IF i > Len(s) THEN NoMatch
    ELSE LET j == SpaceEnd(s, i + 4)
         IN  IF StartsWithAt(s, i, "from") /\ j > i + 4 /\ PairAt(s, j, "to").matched
             THEN PairAt(s, j, "to")
             ELSE FromToFrom(s, i + 1)

\* every character of s from a to b is [^a-zA-Z]
NoLetters(s, a, b) == \A k \in a..b : ~IsLetter(Ch(s, k))

\* <verb>\s+[^a-zA-Z]+\s+(\w+)\s+to\s+(\w+) with the verb at i: the first
\* capture can start at j when the text between the verb and j holds no
\* letter, starts and ends with white space and is at least three characters
\* long; [^a-zA-Z]+ is greedy, so the rightmost such j that completes the
\* match is taken.
VerbStarts(s, i, verb) ==
    LET a == i + Len(verb)
    IN  {j \in (a + 3)..Len(s) :
            /\ IsSpace(Ch(s, a))
            /\ IsSpace(Ch(s, j - 1))
            /\ NoLetters(s, a, j - 1)
            /\ PairAt(s, j, "to").matched}

\* /<verb>\s+[^a-zA-Z]+\s+(\w+)\s+to\s+(\w+)/: the leftmost match starting
\* at or after i
RECURSIVE VerbFrom(_, _, _)
VerbFrom(s, i, verb) ==
    IF i > Len(s) THEN NoMatch
    ELSE IF StartsWithAt(s, i, verb) /\ VerbStarts(s, i, verb) # {}
    THEN LET js == VerbStarts(s, i, verb)
         IN  PairAt(s, CHOOSE j \in js : \A j2 \in js : j2 <= j, "to")
    ELSE VerbFrom(s, i + 1, verb)

NumPatterns == 5

\* normalizedQuery.match(conversionPatterns[k - 1])
PatternMatch(k, s) ==
    CASE k = 1 -> FromToFrom(s, 1)
      [] k = 2 -> PairFrom(s, 1, "to")
      [] k = 3 -> VerbFrom(s, 1, "convert")
      [] k = 4 -> VerbFrom(s, 1, "exchange")
      [] k = 5 -> PairFrom(s, 1, "in")


-----------------------------------------------------------------------------
(* extractCurrencyInfo                                                     *)

NoAmountError ==
    "Couldn't identify an amount in your query. Please specify an amount to convert."
BothCurrenciesError ==
    "Please specify both the source and target currencies more clearly."

\* a pattern loop that starts every pattern with both variables null
RECURSIVE PatternLoopRestarting(_, _, _, _)
PatternLoopRestarting(s, k, fromCurrency, toCurrency) ==
    IF k > NumPatterns
    THEN [fromCurrency |-> fromCurrency, toCurrency |-> toCurrency, exit |-> 0]
    ELSE The({
           The({
             LET from2 == IF match.matched /\ Truthy(sourceCode) THEN sourceCode ELSE null
                 to2 == IF match.matched /\ Truthy(targetCode) THEN targetCode ELSE null
             IN  IF match.matched /\ Truthy(from2) /\ Truthy(to2)
                 THEN [fromCurrency |-> from2, toCurrency |-> to2, exit |-> k]
                 ELSE PatternLoopRestarting(s, k + 1, from2, to2)
             : sourceCode \in {PropertyOf(toLowerCase(match.source))},
               targetCode \in {PropertyOf(toLowerCase(match.target))} })
           : match \in {PatternMatch(k, s)} })

\* for (const pattern of conversionPatterns) { ... }, from pattern k on, with
\* the current values of the two variables.  exit is the pattern at which
\* the loop broke, 0 when it ran to its end.
RECURSIVE PatternLoop(_, _, _, _)
PatternLoop(s, k, fromCurrency, toCurrency) ==
    IF k > NumPatterns
    THEN [fromCurrency |-> fromCurrency, toCurrency |-> toCurrency, exit |-> 0]
    ELSE The({
           LET source == toLowerCase(match.source)
               target == toLowerCase(match.target)
           IN  The({
                 LET from2 == IF match.matched /\ Truthy(sourceCode)
                              THEN sourceCode ELSE fromCurrency
                     to2 == IF match.matched /\ Truthy(targetCode)
                            THEN targetCode ELSE toCurrency
                 IN  IF match.matched /\ Truthy(from2) /\ Truthy(to2)
                     THEN [fromCurrency |-> from2, toCurrency |-> to2, exit |-> k]
                     ELSE PatternLoop(s, k + 1, from2, to2)
                 : sourceCode \in {PropertyOf(source)},
                   targetCode \in {PropertyOf(target)} })
           : match \in {PatternMatch(k, s)} })

\* the pattern phase: both variables start as null
PatternPhase(s) == PatternLoop(s, 1, null, null)

\* a scan that takes for toCurrency the next key found, whatever its code
RECURSIVE ScanLoopAnyCode(_, _, _, _)
ScanLoopAnyCode(s, k, fromCurrency, toCurrency) ==
    IF k > Len(currencyCodes)
    THEN [fromCurrency |-> fromCurrency, toCurrency |-> toCurrency]
    ELSE LET key == currencyCodes[k][1]
             code == currencyCodes[k][2]
         IN  IF includes(s, key)
             THEN IF ~Truthy(fromCurrency)
                  THEN ScanLoopAnyCode(s, k + 1, code, toCurrency)
                  ELSE IF ~Truthy(toCurrency)
                  THEN [fromCurrency |-> fromCurrency, toCurrency |-> code]
                  ELSE ScanLoopAnyCode(s, k + 1, fromCurrency, toCurrency)
             ELSE ScanLoopAnyCode(s, k + 1, fromCurrency, toCurrency)

\* for (const [key, code] of Object.entries(currencyCodes)) { ... }, from
\* entry k on
RECURSIVE ScanLoop(_, _, _, _)
ScanLoop(s, k, fromCurrency, toCurrency) ==
    IF k > Len(currencyCodes)
    THEN [fromCurrency |-> fromCurrency, toCurrency |-> toCurrency]
    ELSE LET key == currencyCodes[k][1]
             code == currencyCodes[k][2]
         IN  IF includes(s, key)
             THEN IF ~Truthy(fromCurrency)
                  THEN ScanLoop(s, k + 1, code, toCurrency)
                  ELSE IF ~Truthy(toCurrency) /\ code # fromCurrency
                  THEN [fromCurrency |-> fromCurrency, toCurrency |-> code]
                  ELSE ScanLoop(s, k + 1, fromCurrency, toCurrency)
             ELSE ScanLoop(s, k + 1, fromCurrency, toCurrency)

\* the scan run only when the pattern phase found neither currency
DetectCurrenciesWhenNeither(s) ==
    The({ IF ~Truthy(p.fromCurrency) /\ ~Truthy(p.toCurrency)
          THEN ScanLoop(s, 1, p.fromCurrency, p.toCurrency)
          ELSE [fromCurrency |-> p.fromCurrency, toCurrency |-> p.toCurrency]
          : p \in {PatternPhase(s)} })

\* the two detection phases: the scan runs only when a variable is still
\* unset after the patterns
DetectCurrencies(s) ==
    The({ IF ~Truthy(p.fromCurrency) \/ ~Truthy(p.toCurrency)
          THEN ScanLoop(s, 1, p.fromCurrency, p.toCurrency)
          ELSE [fromCurrency |-> p.fromCurrency, toCurrency |-> p.toCurrency]
          : p \in {PatternPhase(s)} })

\* the extraction with the two checks in the other order
ExtractCurrenciesFirst(normalizedQuery) ==
    The({ IF ~Truthy(d.fromCurrency) \/ ~Truthy(d.toCurrency)
          THEN [success |-> FALSE, error |-> BothCurrenciesError]
          ELSE The({ IF m = ""
                     THEN [success |-> FALSE, error |-> NoAmountError]
                     ELSE [success |-> TRUE, amount |-> parseFloat(RemoveCommas(m)),
                           fromCurrency |-> d.fromCurrency, toCurrency |-> d.toCurrency]
                     : m \in {amountMatch(normalizedQuery)} })
          : d \in {DetectCurrencies(normalizedQuery)} })

\* the function after const normalizedQuery = query.toLowerCase()
ExtractNormalized(normalizedQuery) ==
    The({ IF m = ""
          THEN [success |-> FALSE, error |-> NoAmountError]
          ELSE The({ IF ~Truthy(d.fromCurrency) \/ ~Truthy(d.toCurrency)
                     THEN [success |-> FALSE, error |-> BothCurrenciesError]
                     ELSE [success |-> TRUE, amount |-> parseFloat(RemoveCommas(m)),
                           fromCurrency |-> d.fromCurrency,
                           toCurrency |-> d.toCurrency]
                     : d \in {DetectCurrencies(normalizedQuery)} })
          : m \in {amountMatch(normalizedQuery)} })

extractCurrencyInfo(q) == The({ExtractNormalized(s) : s \in {toLowerCase(q)}})


-----------------------------------------------------------------------------
(* formatCurrencyResult                                                    *)

\* CURRENCY_LIST, as (code, symbol); CURRENCY_SYMBOLS is built from it
CURRENCY_LIST ==
    << <<"USD", "$">>, <<"EUR", EuroSign>>, <<"GBP", PoundSign>>, <<"JPY", YenSign>>,
       <<"INR", RupeeSign>>, <<"CAD", "C$">>, <<"AUD", "A$">>, <<"CHF", "CHF">>,
       <<"CNY", YenSign>>, <<"RUB", RubleSign>>, <<"MXN", "$">>, <<"BRL", "R$">> >>

ListedCodes == {CURRENCY_LIST[k][1] : k \in 1..Len(CURRENCY_LIST)}

\* CURRENCY_SYMBOLS[code] || '', the code coerced to a property name.  An
\* object produced by Object.fromEntries inherits from Object.prototype.
SymbolOf(code) ==
    IF code \in ListedCodes
    THEN CURRENCY_LIST[CHOOSE k \in 1..Len(CURRENCY_LIST) : CURRENCY_LIST[k][1] = code][2]
    ELSE IF code = "constructor" THEN ObjectFunction
    ELSE IF code = "__proto__" THEN ObjectPrototype
    ELSE ""

\* the decimal digits of a natural number
RECURSIVE IntToString(_)
IntToString(n) ==
    IF n < 10 THEN SubSeq(DigitChars, n + 1, n + 1)
    ELSE IntToString(n \div 10) \o SubSeq(DigitChars, (n % 10) + 1, (n % 10) + 1)

\* a digit string padded with zeros on the left to n characters
RECURSIVE PadLeft(_, _)
PadLeft(d, n) == IF Len(d) >= n THEN d ELSE PadLeft("0" \o d, n)

\* trailing zeros removed while more than n characters remain
RECURSIVE TrimZeros(_, _)
TrimZeros(d, n) ==
    IF Len(d) > n /\ SubSeq(d, Len(d), Len(d)) = "0"
    THEN TrimZeros(SubSeq(d, 1, Len(d) - 1), n)
    ELSE d

\* en-US grouping of the integer digits
RECURSIVE Group(_)
Group(d) ==
    IF Len(d) <= 3 THEN d
    ELSE Group(SubSeq(d, 1, Len(d) - 3)) \o "," \o SubSeq(d, Len(d) - 2, Len(d))

\* the character U+221E, which the module's character set cannot spell
InfinitySign == "<U+221E>"

\* a / d with the remainder dropped
RoundDown(a, d) == a \div d

\* a / d rounded to the nearest integer, halves away from zero (a >= 0, d > 0)
RoundHalfExpand(a, d) == (2 * a + d) \div (2 * d)

\* new Intl.NumberFormat('en-US', {minimumFractionDigits: minFrac,
\* maximumFractionDigits: maxFrac}).format(x)
NumberFormat(x, minFrac, maxFrac) ==
    IF isNaN(x) THEN "NaN"
    ELSE IF x.kind = "Infinity" THEN (IF x.m < 0 THEN "-" ELSE "") \o InfinitySign
    ELSE LET a == IF x.m < 0 THEN 0 - x.m ELSE x.m
             scaled == IF x.e <= maxFrac THEN a * Pow10(maxFrac - x.e)
                       ELSE RoundHalfExpand(a, Pow10(x.e - maxFrac))
             ip == scaled \div Pow10(maxFrac)
             fp == scaled % Pow10(maxFrac)
             fraction == IF maxFrac = 0 THEN ""
                         ELSE TrimZeros(PadLeft(IntToString(fp), maxFrac), minFrac)
         IN  (IF x.m < 0 THEN "-" ELSE "") \o Group(IntToString(ip))
             \o (IF fraction = "" THEN "" ELSE "." \o fraction)

\* the defaults of Intl.NumberFormat for a decimal style
DefaultMinFractionDigits == 0
DefaultMaxFractionDigits == 3
\* the options formatCurrencyResult passes for the result
ResultMinFractionDigits == 2
ResultMaxFractionDigits == 2

formatCurrencyResult(amount, fromCurrency, toCurrency, converted) ==
    LET formattedAmount ==
            NumberFormat(amount, DefaultMinFractionDigits, DefaultMaxFractionDigits)
        formattedResult ==
            NumberFormat(converted, ResultMinFractionDigits, ResultMaxFractionDigits)
        fromSymbol == SymbolOf(fromCurrency)
        toSymbol == SymbolOf(toCurrency)
    IN  fromSymbol \o formattedAmount \o " " \o fromCurrency \o " is approximately "
        \o toSymbol \o formattedResult \o " " \o toCurrency
        \o " at the current exchange rate."


-----------------------------------------------------------------------------
(* The CurrencyConverter component and the Index page that holds it.       *)

\* String.prototype.trim
\* the index of the last character before n that is not white space
RECURSIVE LastNonSpace(_, _)
LastNonSpace(t, n) == IF n >= 1 /\ IsSpace(Ch(t, n)) THEN LastNonSpace(t, n - 1) ELSE n

trim(t) == SubSeq(t, SpaceEnd(t, 1), LastNonSpace(t, Len(t)))

\* values of the variables while no handler is running (the constants of a
\* handler go out of scope when it ends; response keeps what the last fetch
\* came to until the next fetch is issued)
NoRequest == [amount |-> NaN, fromCurrency |-> null, toCurrency |-> null]
EmptyRates == [c \in {} |-> NaN]
NoBody == [kind |-> "none", rates |-> EmptyRates]
NoResponse == [status |-> "none", ok |-> FALSE, body |-> NoBody]
NotExtracted == [success |-> FALSE, error |-> ""]
NoArgs == [amount |-> NaN, fromCurrency |-> null, toCurrency |-> null, result |-> NaN]

\* useForm({defaultValues: ...})
DefaultForm == [amount |-> "100", fromCurrency |-> "USD", toCurrency |-> "EUR"]

\* the state after the first render, with q in the query box and args as
\* the arguments of the last call of formatCurrencyResult
Rendered(q, args) ==
    /\ query = q
    /\ result = null
    /\ isConverting = FALSE
    /\ usingNaturalLanguage = TRUE
    /\ form = DefaultForm
    /\ isLoading = FALSE
    /\ handler = "none"
    /\ request = NoRequest
    /\ response = NoResponse
    /\ extraction = NotExtracted
    /\ formatArgs = args
    /\ formatCalls = 0
    /\ fetches = 0
    /\ toast = ""

\* the queries the page suggests under "Try queries like:"
ExampleQueries ==
    { "Convert 10000 Indian Rupees to US Dollars",
      "How much is 200 USD in INR?",
      "Exchange 50 EUR to GBP",
      "What is the current exchange rate for USD to EUR?" }

\* what the user types into the query box
TypedQueries ==
    ExampleQueries \cup {"", "  ", "100", "100 usd to eur"}

\* what the user enters into the structured form
TypedAmounts == {"100", "1,000.50", "abc", "Infinity"}
PickedCodes == {"USD", "EUR"}

\* what the rate service can answer: the rates member of the body
RateValues == {Finite(0, 0), Finite(92345, 5)}
RateTables ==
    {[c \in D |-> r] : D \in {ListedCodes, {"JPY"}}, r \in RateValues}

\* the bodies response.json() can resolve to; "malformed" is a body json()
\* rejects
Bodies ==
    {[kind |-> k, rates |-> EmptyRates] : k \in {"malformed", "null", "norates"}}
    \cup {[kind |-> "rates", rates |-> t] : t \in RateTables}

\* inputs and submit buttons that are never disabled
neverDisabled == FALSE

\* disabled={isConverting} on the inputs, the selects and the submit buttons
disabled == isConverting

\* onChange of the query input (disabled while converting)
SetQuery(q) ==
    /\ usingNaturalLanguage
    /\ ~disabled
    /\ query' = q
    /\ UNCHANGED <<result, isConverting, usingNaturalLanguage, form, isLoading, pc,
                   handler, request, response, extraction, formatArgs, formatCalls,
                   fetches, toast>>

\* onClick of the two "Conversion Method" buttons (never disabled)
SetUsingNaturalLanguage(b) ==
    /\ pc \in {"idle", "fetch", "json"}
    /\ usingNaturalLanguage' = b
    /\ UNCHANGED <<query, result, isConverting, form, isLoading, pc, handler, request,
                   response, extraction, formatArgs, formatCalls, fetches, toast>>

\* the amount field and the two selects of the structured form (disabled
\* while converting)
SetFormField(field, v) ==
    /\ ~usingNaturalLanguage
    /\ ~disabled
    /\ form' = [form EXCEPT ![field] = v]
    /\ UNCHANGED <<query, result, isConverting, usingNaturalLanguage, isLoading, pc,
                   handler, request, response, extraction, formatArgs, formatCalls,
                   fetches, toast>>

\* a handler returns before setIsConverting(true): only the toast changes
ReturnEarly(title) ==
    /\ toast' = title
    /\ formatCalls' = 0
    /\ fetches' = 0
    /\ UNCHANGED <<query, result, isConverting, usingNaturalLanguage, form, isLoading,
                   pc, handler, request, response, formatArgs>>

\* setIsConverting(true); setIsLoading(true); setResult(null); then the
\* fetch is issued and the handler waits for it
StartFetch(h, amount, fromCurrency, toCurrency) ==
    /\ isConverting' = TRUE
    /\ isLoading' = TRUE
    /\ result' = null
    /\ request' = [amount |-> amount, fromCurrency |-> fromCurrency,
                   toCurrency |-> toCurrency]
    /\ handler' = h
    /\ pc' = "fetch"
    /\ fetches' = IF pc = "idle" THEN 1 ELSE fetches + 1
    /\ formatCalls' = 0
    /\ toast' = ""
    /\ response' = NoResponse
    /\ UNCHANGED <<query, usingNaturalLanguage, form, formatArgs>>

\* onSubmit of the natural-language form (its button is disabled while
\* converting)
handleNaturalLanguageSubmit ==
    /\ usingNaturalLanguage
    /\ ~disabled
    /\ IF trim(query) = ""
       THEN ReturnEarly("Please enter a query") /\ UNCHANGED extraction
       ELSE \E extractionResult \in {extractCurrencyInfo(query)} :
                IF ~extractionResult.success
                THEN \* the flags are set and cleared again in the same turn
                     /\ toast' = "Couldn't understand query"
                     /\ result' = null
                     /\ isConverting' = FALSE
                     /\ isLoading' = FALSE
                     /\ formatCalls' = 0
                     /\ fetches' = 0
                     /\ UNCHANGED <<query, usingNaturalLanguage, form, pc, handler,
                                    request, response, extraction, formatArgs>>
                ELSE /\ extraction' = extractionResult
                     /\ StartFetch("natural", extractionResult.amount,
                                   extractionResult.fromCurrency,
                                   extractionResult.toCurrency)

\* form.handleSubmit(handleStructuredSubmit) (its button is disabled while
\* converting)
handleStructuredSubmit ==
    /\ ~usingNaturalLanguage
    /\ ~disabled
    /\ UNCHANGED extraction
    /\ \E numericAmount \in {parseFloat(RemoveCommas(form.amount))} :
           IF isNaN(numericAmount)
           THEN ReturnEarly("Invalid amount")
           ELSE StartFetch("structured", numericAmount, form.fromCurrency,
                           form.toCurrency)

\* a catch block without the finally block: the flags stay as they are
ConversionFailedWithoutFinally(settled) ==
    /\ toast' = "Conversion failed"
    /\ pc' = "idle"
    /\ handler' = "none"
    /\ request' = NoRequest
    /\ response' = settled
    /\ extraction' = NotExtracted
    /\ UNCHANGED <<query, result, isConverting, isLoading, usingNaturalLanguage, form,
                   formatArgs, formatCalls, fetches>>

\* catch (error) { toast(...) } finally { ... }
ConversionFailed(settled) ==
    /\ toast' = "Conversion failed"
    /\ isConverting' = FALSE
    /\ isLoading' = FALSE
    /\ pc' = "idle"
    /\ handler' = "none"
    /\ request' = NoRequest
    /\ response' = settled
    /\ extraction' = NotExtracted
    /\ UNCHANGED <<query, result, usingNaturalLanguage, form, formatArgs, formatCalls,
                   fetches>>

\* await fetch(...) rejects: the network failed
FetchRejects ==
    /\ pc = "fetch"
    /\ ConversionFailed([status |-> "rejected", ok |-> FALSE, body |-> NoBody])

\* a handler that awaits the body whatever the status of the Response
FetchResolvesUnchecked(ok) ==
    /\ pc = "fetch"
    /\ response' = [status |-> "resolved", ok |-> ok, body |-> NoBody]
    /\ pc' = "json"
    /\ UNCHANGED <<query, result, isConverting, usingNaturalLanguage, form,
                   isLoading, handler, request, extraction, formatArgs,
                   formatCalls, fetches, toast>>

\* await fetch(...) resolves to a Response; if (!response.ok) throw
FetchResolves(ok) ==
    /\ pc = "fetch"
    /\ IF ~ok
       THEN ConversionFailed([status |-> "resolved", ok |-> FALSE, body |-> NoBody])
       ELSE /\ response' = [status |-> "resolved", ok |-> TRUE, body |-> NoBody]
            /\ pc' = "json"
            /\ UNCHANGED <<query, result, isConverting, usingNaturalLanguage, form,
                           isLoading, handler, request, extraction, formatArgs,
                           formatCalls, fetches, toast>>

\* a rate as a condition: undefined, 0 and NaN are falsy
HasRate(data, code) ==
    /\ data.kind = "rates"
    /\ code \in DOMAIN data.rates
    /\ ~isNaN(data.rates[code])
    /\ data.rates[code].m # 0

\* await response.json() settles; the rest of the try block, and finally
JsonSettles(data) ==
    /\ pc = "json"
    /\ IF data.kind # "malformed" /\ HasRate(data, request.toCurrency)
       THEN \E convertedAmount \in
                   {Times(request.amount, data.rates[request.toCurrency])} :
                /\ formatArgs' = [amount |-> request.amount,
                                  fromCurrency |-> request.fromCurrency,
                                  toCurrency |-> request.toCurrency,
                                  result |-> convertedAmount]
                /\ formatCalls' = formatCalls + 1
                /\ result' = formatCurrencyResult(request.amount, request.fromCurrency,
                                                  request.toCurrency, convertedAmount)
                /\ isConverting' = FALSE
                /\ isLoading' = FALSE
                /\ pc' = "idle"
                /\ handler' = "none"
                /\ request' = NoRequest
                /\ response' = [response EXCEPT !.body = data]
                /\ extraction' = NotExtracted
                /\ UNCHANGED <<query, usingNaturalLanguage, form, fetches, toast>>
       ELSE ConversionFailed([response EXCEPT !.body = data])

Init ==
    /\ Rendered("", NoArgs)
    /\ pc = "idle"

Next ==
    \/ \E q \in TypedQueries : SetQuery(q)
    \/ \E b \in BOOLEAN : SetUsingNaturalLanguage(b)
    \/ \E a \in TypedAmounts : SetFormField("amount", a)
    \/ \E f \in {"fromCurrency", "toCurrency"}, c \in PickedCodes : SetFormField(f, c)
    \/ handleNaturalLanguageSubmit
    \/ handleStructuredSubmit
    \/ FetchRejects
    \/ \E ok \in BOOLEAN : FetchResolves(ok)
    \/ \E data \in Bodies : JsonSettles(data)

Spec == Init /\ [][Next]_vars

\* the body carries a rate for the code
ContainsCode(body, code) == body.kind = "rates" /\ code \in DOMAIN body.rates
Submitting == pc \in {"fetch", "json"} /\ handler \in {"natural", "structured"}

\* a step in which a submission of either handler ends with a Response that
\* is not OK or whose body lacks the target code
EndsWithoutRate ==
    /\ Submitting
    /\ pc' = "idle"
    /\ response'.status = "resolved"
    /\ ~response'.ok \/ ~ContainsCode(response'.body, request.toCurrency)

\* a step that sets a result string
SetsResult == result' # result /\ result' # null

C8_Step ==
    /\ EndsWithoutRate =>
          /\ toast' = "Conversion failed"
          /\ result = null /\ result' = null
          /\ formatCalls = 0 /\ formatCalls' = 0
          /\ formatArgs' = formatArgs
    /\ SetsResult =>
          /\ Submitting
          /\ response'.status = "resolved"
          /\ response'.ok
          /\ ContainsCode(response'.body, request.toCurrency)
          /\ formatCalls' = 1

\* C8: in both handlers a submission whose Response is not OK, or whose body
\* has no entry for the target code, ends with the "Conversion failed" toast,
\* the result still null and formatCurrencyResult not called; a result is
\* set only by a submission whose Response is OK and carries the target code.
C8_FailureLeavesNoResult == [][C8_Step]_vars

\* a submission has ended on an OK Response whose rates lack the target code
C8_Witness ==
    /\ pc = "idle"
    /\ fetches = 1
    /\ response.status = "resolved"
    /\ response.ok
    /\ response.body.kind = "rates"
    /\ DOMAIN response.body.rates = {"JPY"}
    /\ toast = "Conversion failed"
    /\ result = null
    /\ formatCalls = 0


\* the toasts of the paths that return before the fetch
EarlyTitles == {"Please enter a query", "Invalid amount", "Couldn't understand query"}
InFlight == pc \in {"fetch", "json"}

\* a step that issues a fetch
IssuesFetch == fetches' # fetches /\ fetches' # 0

C13_Step ==
    /\ IssuesFetch =>
          /\ ~InFlight /\ ~isConverting
          /\ InFlight' /\ isConverting'
          /\ fetches' = 1
          /\ toast' = ""
    /\ InFlight => (disabled /\ ~ENABLED handleNaturalLanguageSubmit
                             /\ ~ENABLED handleStructuredSubmit)

\* C13: a submission issues at most one fetch: the paths that end with the
\* toasts for an empty query, an invalid amount or a failed extraction issue
\* none, a failed fetch is not followed by another fetch of the same
\* submission, and while a submission is in flight the inputs and the submit
\* buttons are disabled, so that a fetch is issued only while none is in
\* flight.
C13_SingleFetch ==
    /\ []( /\ fetches <= 1
           /\ InFlight => (fetches = 1 /\ disabled)
           /\ toast \in EarlyTitles => (fetches = 0 /\ ~InFlight)
           /\ toast = "Conversion failed" => (fetches = 1 /\ ~InFlight) )
    /\ [][C13_Step]_vars

\* a fetch was rejected and the submission has ended with its one fetch
C13_Witness ==
    /\ toast = "Conversion failed"
    /\ response.status = "rejected"
    /\ fetches = 1
    /\ pc = "idle"
    /\ ~isConverting

\* the titles of all toasts
Titles == EarlyTitles \cup {"Conversion failed"}

\* C14: isConverting and the page's isLoading are true exactly while a
\* submission that passed its validation is waiting for its fetch or for the
\* body, and both are false again in every state a submission has ended in:
\* after each toast (empty query, invalid amount, failed extraction, failed
\* conversion) and after a result was set.
C14_FlagsNotStuck ==
    /\ isConverting = isLoading
    /\ isConverting <=> InFlight
    /\ (toast \in Titles \/ result # null) => (~isConverting /\ ~isLoading)
    /\ InFlight => (toast = "" /\ result = null /\ fetches = 1)

\* response.json() threw and the submission has ended with both flags false
C14_Witness ==
    /\ pc = "idle"
    /\ response.status = "resolved"
    /\ response.ok
    /\ response.body.kind = "malformed"
    /\ toast = "Conversion failed"
    /\ ~isConverting
    /\ ~isLoading

-----------------------------------------------------------------------------
(* extractCurrencyInfo as a function: the inputs are drawn from bounded    *)
(* sets and the one action applies it.                                     *)

\* longest sentence of free words
MaxWords == 5

Words == {"5", "usd", "eur", "to", "in"}

\* the sentences of at most n words, the words separated by one space
RECURSIVE Sentences(_)
Sentences(n) ==
    IF n = 0 THEN {""}
    ELSE LET S == Sentences(n - 1)
         IN  S \cup {IF t = "" THEN w ELSE t \o " " \o w : t \in S, w \in Words}

AliasKeys == {currencyCodes[k][1] : k \in 1..Len(currencyCodes)}
Connectives == {"to", "in"}
AliasPartners == {"usd", "eur", "foo", "constructor"}

\* "100 <x> to <y>" and "100 <x> in <y>"
Framed(x, c, y) == "100 " \o x \o " " \o c \o " " \o y

\* every alias key in the source and in the target position
AliasQueries ==
    {Framed(t, c, o) : t \in AliasKeys, c \in Connectives, o \in AliasPartners}
    \cup {Framed(o, c, t) : t \in AliasKeys, c \in Connectives, o \in AliasPartners}

\* amounts as a user may write them
WrittenAmounts == {"0", "-0", "5", "-5", "12.5", "-12.5", "-1,000"}
AmountPrefixes == {"", "convert ", "exchange "}
Written(pre, a) == pre \o a \o " usd to eur"
AmountQueries == {Written(pre, a) : pre \in AmountPrefixes, a \in WrittenAmounts}

\* two-word currency names around "to"
Phrases == {"Indian Rupees", "US Dollars", "British Pounds", "Japanese Yen"}
Phrased(a, b) == "Convert 10000 " \o a \o " to " \o b
PhraseQueries == {Phrased(ab[1], ab[2]) : ab \in {p \in Phrases \X Phrases : p[1] # p[2]}}

\* numbers next to letters, numbers with separators, two numbers
TokenQueries ==
    {"usd100 to eur", "100usd to eur", "1,000usd to eur", "1,2345 usd to eur",
     "1,000 usd to eur", "12,345.67 usd to eur", "1.5 usd to eur",
     "in 2024, convert 100 USD to EUR"}

ExtractQueries ==
    Sentences(MaxWords) \cup AliasQueries \cup AmountQueries \cup PhraseQueries
    \cup TokenQueries
    \cup ExampleQueries \cup {"no numbers here", "100", "from usd to eur 7"}

ExtractInit ==
    /\ \E q \in ExtractQueries : Rendered(q, NoArgs)
    /\ pc = "input"

\* the call extractCurrencyInfo(query)
ExtractCall ==
    /\ pc = "input"
    /\ extraction' = extractCurrencyInfo(query)
    /\ pc' = "returned"
    /\ UNCHANGED <<query, result, isConverting, usingNaturalLanguage, form, isLoading,
                   handler, request, response, formatArgs, formatCalls, fetches, toast>>

SpecExtract == ExtractInit /\ [][ExtractCall]_vars


-----------------------------------------------------------------------------
(* Claims about extractCurrencyInfo, read in the states where the call has *)
(* returned.                                                               *)

Returned == pc = "returned"
normalized == toLowerCase(query)
Success(amount, fromCurrency, toCurrency) ==
    [success |-> TRUE, amount |-> amount,
     fromCurrency |-> fromCurrency, toCurrency |-> toCurrency]
Failure(error) == [success |-> FALSE, error |-> error]
Names(code) == /\ extraction.success
               /\ code \in {extraction.fromCurrency, extraction.toCurrency}
CurrencyPartners == {"usd", "eur"}

\* C1: for every alias token t of the table, "100 <t> to|in <partner>" and
\* "100 <partner> to|in <t>", the partner being the code of another currency,
\* succeed and name the code the table lists for t.
C1_AliasResolves ==
    Returned =>
        \A k \in 1..Len(currencyCodes), c \in Connectives, o \in CurrencyPartners :
            /\ PropertyOf(o) # currencyCodes[k][2]
            /\ query \in {Framed(currencyCodes[k][1], c, o), Framed(o, c, currencyCodes[k][1])}
            => Names(currencyCodes[k][2])

\* the codes whose alias keys occur in s
MentionedCodes(s) ==
    {currencyCodes[k][2] : k \in {j \in 1..Len(currencyCodes) : includes(s, currencyCodes[j][1])}}

\* the places of s where an alias key starts
KeyStarts(s) ==
    {i \in 1..Len(s) : \E k \in 1..Len(currencyCodes) : StartsWithAt(s, i, currencyCodes[k][1])}

\* C2: a query with an amount that mentions one currency only, in one place,
\* is answered with the failure that asks for both currencies.
C2_SingleCurrencyFails ==
    (/\ Returned
     /\ amountMatch(normalized) # ""
     /\ Cardinality(MentionedCodes(normalized)) = 1
     /\ Cardinality(KeyStarts(normalized)) = 1)
        => extraction = Failure(BothCurrenciesError)

SupportedCodes == {currencyCodes[k][2] : k \in 1..Len(currencyCodes)}

\* C3: the result is a failure carrying one of the two messages, or a success
\* whose amount is a number and whose two codes are codes of the table.
C3_ResultShape ==
    Returned =>
        \/ extraction \in {Failure(NoAmountError), Failure(BothCurrenciesError)}
        \/ /\ extraction.success
           /\ IsNumber(extraction.amount)
           /\ extraction.fromCurrency \in SupportedCodes
           /\ extraction.toCurrency \in SupportedCodes


\* C4: the amount is looked for first: a query without a numeric amount gets
\* the no-amount failure whatever currencies it names, and the failure that
\* asks for both currencies is given only to a query with an amount.
C4_AmountCheckFirst ==
    Returned =>
        /\ amountMatch(normalized) = "" => extraction = Failure(NoAmountError)
        /\ (~extraction.success /\ extraction.error = BothCurrenciesError)
               => amountMatch(normalized) # ""

\* a query that names two currencies and no amount has been answered
C4_Witness ==
    /\ Returned
    /\ amountMatch(normalized) = ""
    /\ Truthy(DetectCurrencies(normalized).fromCurrency)
    /\ Truthy(DetectCurrencies(normalized).toCurrency)
    /\ extraction = Failure(NoAmountError)

\* the pattern phase resolved the source only and left the target to the scan
PartialThenScan(s) ==
    /\ Truthy(PatternPhase(s).fromCurrency)
    /\ ~Truthy(PatternPhase(s).toCurrency)
    /\ PatternPhase(s).exit = 0
    /\ extraction.success
    /\ extraction.fromCurrency = PatternPhase(s).fromCurrency
    /\ extraction.toCurrency =
           ScanLoop(s, 1, PatternPhase(s).fromCurrency, PatternPhase(s).toCurrency).toCurrency

\* C5: "<amount> <two-word source> to <two-word target>" is resolved by a
\* partial pattern match completed by the substring scan, and "Convert 10000
\* Indian Rupees to US Dollars" gives 10000, INR, USD.
C5_PhraseQuery ==
    Returned =>
        /\ query \in PhraseQueries => PartialThenScan(normalized)
        /\ query = "Convert 10000 Indian Rupees to US Dollars"
               => extraction = Success(Finite(10000, 0), "INR", "USD")

C5_Witness ==
    /\ Returned
    /\ query = "Convert 10000 Indian Rupees to US Dollars"
    /\ PartialThenScan(normalized)
    /\ extraction.toCurrency = "USD"

\* what each example of the page asks for
ExamplePairs ==
    [q \in ExampleQueries |->
        CASE q = "Convert 10000 Indian Rupees to US Dollars" -> <<"INR", "USD">>
          [] q = "How much is 200 USD in INR?" -> <<"USD", "INR">>
          [] q = "Exchange 50 EUR to GBP" -> <<"EUR", "GBP">>
          [] OTHER -> <<"USD", "EUR">>]

\* C6: every example query of the page is extracted successfully, with the
\* pair it names.
C6_ExamplesAccepted ==
    (Returned /\ query \in ExampleQueries) =>
        /\ extraction.success
        /\ extraction.fromCurrency = ExamplePairs[query][1]
        /\ extraction.toCurrency = ExamplePairs[query][2]

\* the number a text denotes, and the same number without its sign
Denoted(a) == parseFloat(RemoveCommas(a))
Magnitude(x) == IF x.m < 0 THEN Finite(0 - x.m, x.e) ELSE x
ZeroOrNegative(a) == Denoted(a).m <= 0 \/ Ch(a, 1) = "-"

\* C9 as stated: an amount written as 0 or with a leading minus sign is
\* returned as written, sign included.
C9_SignPreserved ==
    Returned =>
        \A pre \in AmountPrefixes, a \in WrittenAmounts :
            (query = Written(pre, a) /\ ZeroOrNegative(a))
                => extraction = Success(Denoted(a), "USD", "EUR")

\* C9: an amount written as 0 is returned as 0; a minus sign before the
\* digits is not part of the match, so the magnitude is returned; no
\* extracted amount is negative or not a finite number.
C9_SignDropped ==
    Returned =>
        /\ \A pre \in AmountPrefixes, a \in WrittenAmounts :
               query = Written(pre, a)
                   => extraction = Success(Magnitude(Denoted(a)), "USD", "EUR")
        /\ extraction.success
               => IsFiniteNumber(extraction.amount) /\ extraction.amount.m >= 0

C9_Witness ==
    /\ Returned
    /\ query = "convert -5 usd to eur"
    /\ extraction = Success(Finite(5, 0), "USD", "EUR")

\* for each pattern, the codes its two captures resolve to in s, undefined
\* when the pattern does not match or the capture is no key
CaptureCodes(s) ==
    [k \in 1..NumPatterns |->
        LET match == PatternMatch(k, s)
        IN  IF ~match.matched THEN <<undefined, undefined>>
            ELSE <<PropertyOf(toLowerCase(match.source)),
                   PropertyOf(toLowerCase(match.target))>>]

\* the patterns up to k with a resolved capture on that side of the table c
ResolvedUpTo(k, c, side) == {j \in 1..k : Truthy(c[j][side])}
Last(S) == CHOOSE j \in S : \A i \in S : i <= j
BothBy(k, c) == ResolvedUpTo(k, c, 1) # {} /\ ResolvedUpTo(k, c, 2) # {}

\* the first pattern by which both sides have had a resolved capture
FirstBoth(c) ==
    IF \E k \in 1..NumPatterns : BothBy(k, c)
    THEN CHOOSE k \in 1..NumPatterns : BothBy(k, c) /\ \A j \in 1..(k - 1) : ~BothBy(j, c)
    ELSE 0

\* C10 as stated: when the pattern loop exits early, both codes are the two
\* captures of one single pattern match.
C10_OnePatternPair ==
    Returned =>
        LET p == PatternPhase(normalized)
            c == CaptureCodes(normalized)
        IN  p.exit # 0 =>
                \E k \in 1..NumPatterns :
                    p.fromCurrency = c[k][1] /\ p.toCurrency = c[k][2]

\* C10: the two variables persist across the patterns: the loop exits at the
\* first pattern by which each side has had a resolved capture, in one match
\* or in different ones, and each variable then holds the code of the last
\* such capture on its side; without an amount failure the result carries them.
C10_PairPersists ==
    Returned =>
        LET p == PatternPhase(normalized)
            c == CaptureCodes(normalized)
            x == FirstBoth(c)
        IN  /\ p.exit = x
            /\ x # 0 =>
                  /\ p.fromCurrency = c[Last(ResolvedUpTo(x, c, 1))][1]
                  /\ p.toCurrency = c[Last(ResolvedUpTo(x, c, 2))][2]
                  /\ amountMatch(normalized) # "" =>
                         /\ extraction.success
                         /\ extraction.fromCurrency = p.fromCurrency
                         /\ extraction.toCurrency = p.toCurrency

\* an early exit whose two codes come from different patterns
C10_Witness ==
    /\ Returned
    /\ extraction.success
    /\ LET p == PatternPhase(normalized)
           c == CaptureCodes(normalized)
       IN  /\ p.exit # 0
           /\ Last(ResolvedUpTo(p.exit, c, 1)) # Last(ResolvedUpTo(p.exit, c, 2))
           /\ extraction.fromCurrency = p.fromCurrency
           /\ extraction.toCurrency = p.toCurrency

\* the table entries whose key is a substring of s
Hits(s) == {k \in 1..Len(currencyCodes) : includes(s, currencyCodes[k][1])}
First(S) == CHOOSE j \in S : \A i \in S : j <= i
NoPatternMatches(s) == \A k \in 1..NumPatterns : ~PatternMatch(k, s).matched

\* what the fallback makes of the pair p the patterns left, for the hits h:
\* an empty source takes the first hit, an empty target the first hit whose
\* code differs from the source, a filled slot stays
Fallback(p, h) ==
    LET source == IF Truthy(p.fromCurrency) THEN p.fromCurrency
                  ELSE IF h = {} THEN null
                  ELSE currencyCodes[First(h)][2]
        others == {k \in h : currencyCodes[k][2] # source}
        target == IF Truthy(p.toCurrency) THEN p.toCurrency
                  ELSE IF others = {} THEN null
                  ELSE currencyCodes[First(others)][2]
    IN  [fromCurrency |-> source, toCurrency |-> target]

\* C11: when the patterns leave a slot empty, the scan in table order gives
\* an empty fromCurrency the code of the first key found in the query and an
\* empty toCurrency the code of the first key found whose code differs from
\* fromCurrency; a slot the patterns filled is not changed; without a pattern
\* match the pair follows the table order, not the order of the words.
C11_ScanFallback ==
    Returned =>
        LET p == PatternPhase(normalized)
            f == Fallback(p, Hits(normalized))
        IN  /\ (~Truthy(p.fromCurrency) \/ ~Truthy(p.toCurrency)) =>
                  /\ ScanLoop(normalized, 1, p.fromCurrency, p.toCurrency) = f
                  /\ amountMatch(normalized) # "" =>
                        IF Truthy(f.fromCurrency) /\ Truthy(f.toCurrency)
                        THEN /\ extraction.success
                             /\ extraction.fromCurrency = f.fromCurrency
                             /\ extraction.toCurrency = f.toCurrency
                        ELSE extraction = Failure(BothCurrenciesError)
            /\ query \in {"5 usd eur", "5 eur usd"} =>
                  /\ NoPatternMatches(normalized)
                  /\ extraction = Success(Finite(5, 0), "USD", "EUR")

\* no pattern matched and the query names EUR before USD: the pair is USD, EUR
C11_Witness ==
    /\ Returned
    /\ query = "5 eur usd"
    /\ NoPatternMatches(normalized)
    /\ extraction = Success(Finite(5, 0), "USD", "EUR")

\* the characters i..j-1 of s are a piece of a longer token: a letter or a
\* digit stands right before or right after them, or a separator with a
\* digit on its other side
Fragment(s, i, j) ==
    \/ IsWord(Ch(s, i - 1))
    \/ IsWord(Ch(s, j))
    \/ Ch(s, j) \in {",", "."} /\ IsDigit(Ch(s, j + 1))
    \/ Ch(s, i - 1) \in {",", "."} /\ IsDigit(Ch(s, i - 2))

\* C12: the amount is the value of the leftmost match of the number pattern
\* ("in 2024, convert 100 USD to EUR" gives 2024), and the match is never a
\* fragment of a longer token such as "usd100", "100usd", "1,000usd", "1,2345".
C12_LeftmostWholeToken ==
    Returned =>
        LET i == AmountStart(normalized, 1)
        IN  /\ extraction.success =>
                  /\ i # 0
                  /\ extraction.amount =
                         parseFloat(RemoveCommas(SubSeq(normalized, i, AmountEndAt(normalized, i) - 1)))
                  /\ \A h \in 1..(i - 1) : AmountEndAt(normalized, h) = 0
            /\ query = "in 2024, convert 100 USD to EUR"
                  => extraction = Success(Finite(2024, 0), "USD", "EUR")
            /\ i # 0 => ~Fragment(normalized, i, AmountEndAt(normalized, i))

-----------------------------------------------------------------------------
(* formatCurrencyResult as a function: the arguments are drawn from        *)
(* bounded sets and the one action applies it.                             *)

\* most fraction digits of a converted value
MaxDecimals == 4

FormatMantissas == {0, 4, 5, 45, 995, 1234, 92345, 99995, -5, -995}
ConvertedValues ==
    {Finite(m, e) : m \in FormatMantissas, e \in 0..MaxDecimals}
    \cup {NaN, PosInfinity, NegInfinity}
FormatAmounts ==
    {Finite(100, 0), Finite(0, 0), Finite(12345, 1), Finite(1234567, 0),
     Finite(5, 3), Finite(-5, 0), PosInfinity}
FormatCodes == {"USD", "EUR", "CAD", "XYZ"}
FormatInputs ==
    [amount : FormatAmounts, fromCurrency : FormatCodes, toCurrency : FormatCodes,
     result : ConvertedValues]

FormatInit ==
    /\ \E args \in FormatInputs : Rendered("", args)
    /\ pc = "arguments"

\* the call formatCurrencyResult(amount, fromCurrency, toCurrency, result)
FormatCall ==
    /\ pc = "arguments"
    /\ result' = formatCurrencyResult(formatArgs.amount, formatArgs.fromCurrency,
                                      formatArgs.toCurrency, formatArgs.result)
    /\ formatCalls' = formatCalls + 1
    /\ pc' = "formatted"
    /\ UNCHANGED <<query, isConverting, usingNaturalLanguage, form, isLoading,
                   handler, request, response, extraction, formatArgs, fetches, toast>>

SpecFormat == FormatInit /\ [][FormatCall]_vars

\* the first index >= i at which lit occurs in t, 0 when there is none
RECURSIVE IndexFrom(_, _, _)
IndexFrom(t, lit, i) ==
    IF i + Len(lit) - 1 > Len(t) THEN 0
    ELSE IF StartsWithAt(t, i, lit) THEN i
    ELSE IndexFrom(t, lit, i + 1)

\* the symbol the table lists for a code, the empty string without an entry
ListedSymbol(code) ==
    IF \E k \in 1..Len(CURRENCY_LIST) : CURRENCY_LIST[k][1] = code
    THEN CURRENCY_LIST[CHOOSE k \in 1..Len(CURRENCY_LIST) : CURRENCY_LIST[k][1] = code][2]
    ELSE ""

Unsigned(t) == IF Ch(t, 1) = "-" THEN SubSeq(t, 2, Len(t)) ELSE t
IntegerDigits(t) ==
    LET u == Unsigned(t)
        dot == IndexFrom(u, ".", 1)
    IN  IF dot = 0 THEN u ELSE SubSeq(u, 1, dot - 1)
FractionDigits(t) ==
    LET dot == IndexFrom(t, ".", 1)
    IN  IF dot = 0 THEN "" ELSE SubSeq(t, dot + 1, Len(t))
AllDigits(t) == \A i \in 1..Len(t) : IsDigit(Ch(t, i))

\* digits in groups of three from the right, separated by commas, without a
\* leading zero
Grouped(ip) ==
    /\ Len(ip) >= 1
    /\ \A i \in 1..Len(ip) :
          IF (Len(ip) - i + 1) % 4 = 0 THEN Ch(ip, i) = "," ELSE IsDigit(Ch(ip, i))
    /\ Len(ip) > 1 => Ch(ip, 1) # "0"

\* R shows x to the hundredth: the hundredths nearest to x, a half going
\* away from zero
NearestHundredth(R, x) ==
    LET cents == DigitsValue(RemoveCommas(IntegerDigits(R)) \o FractionDigits(R))
        a == IF x.m < 0 THEN 0 - x.m ELSE x.m
    IN  /\ (Ch(R, 1) = "-") = (x.m < 0)
        /\ IF x.e <= 2 THEN cents = a * Pow10(2 - x.e)
           ELSE LET d == Pow10(x.e - 2)
                IN  2 * (cents * d - a) <= d /\ 2 * (a - cents * d) < d

\* out is the sentence for args, the converted value with two fraction digits
Sentence(args, out) ==
    LET head == ListedSymbol(args.fromCurrency)
        middle == " " \o args.fromCurrency \o " is approximately "
                  \o ListedSymbol(args.toCurrency)
        tail == " " \o args.toCurrency \o " at the current exchange rate."
        at == IndexFrom(out, middle, Len(head) + 1)
        A == SubSeq(out, Len(head) + 1, at - 1)
        R == SubSeq(out, at + Len(middle), Len(out) - Len(tail))
    IN  /\ StartsWithAt(out, 1, head)
        /\ at # 0
        /\ StartsWithAt(out, Len(out) - Len(tail) + 1, tail)
        /\ IsFiniteNumber(args.amount) =>
              /\ Grouped(IntegerDigits(A))
              /\ AllDigits(FractionDigits(A))
              /\ parseFloat(RemoveCommas(A)) = args.amount
        /\ Grouped(IntegerDigits(R))
        /\ Len(FractionDigits(R)) = 2
        /\ AllDigits(FractionDigits(R))
        /\ NearestHundredth(R, args.result)

Formatted == pc = "formatted"
SpecExampleArgs ==
    [amount |-> Finite(100, 0), fromCurrency |-> "USD", toCurrency |-> "EUR",
     result |-> Finite(92345, 3)]
SpecExampleSentence ==
    "$100 USD is approximately " \o EuroSign \o "92.35 EUR at the current exchange rate."

\* C7 as stated: for every amount, converted value and pair of codes the
\* sentence has the stated form, the converted value with exactly two
\* fraction digits.
C7_AlwaysTwoDigits ==
    Formatted => Sentence(formatArgs, result)

\* C7: for every finite amount and finite converted value and every pair of
\* currency codes the sentence has the stated form, the converted value
\* rounded to exactly two fraction digits and the symbol empty for a code
\* without an entry; (100, USD, EUR, 92.345) gives the sentence of the spec.
C7_FiniteTwoDigits ==
    Formatted =>
        /\ (IsFiniteNumber(formatArgs.amount) /\ IsFiniteNumber(formatArgs.result))
               => Sentence(formatArgs, result)
        /\ formatArgs = SpecExampleArgs => result = SpecExampleSentence

\* a value with four fraction digits has been rounded up to two, for a code
\* without a symbol
C7_Witness ==
    /\ Formatted
    /\ formatArgs.result = Finite(99995, 4)
    /\ formatArgs.amount = Finite(1234567, 0)
    /\ formatArgs.fromCurrency = "XYZ"
    /\ formatArgs.toCurrency = "EUR"
    /\ result = "1,234,567 XYZ is approximately " \o EuroSign
                \o "10.00 EUR at the current exchange rate."

====
